---- MODULE Spec2Model ----
(***************************************************************************)
(* The event delivery pipeline of proton-telemetry: createSendData         *)
(* (sendData / sendBatch), the teardown flush (destroy, flushQueue, the    *)
(* page-hide flush) and the timers and requests they leave pending.        *)
(* SendSpec adds the promises sendData returns, GateSpec the consent gate  *)
(* (shouldSend) in front of the pipeline.                                  *)
(*                                                                         *)
(* Time is kept by countdown: every pending timer holds the milliseconds   *)
(* left before it fires, Tick lets time pass and is disabled while a timer *)
(* is due.  Requests settle at any time.                                   *)
(***************************************************************************)
EXTENDS Integers, Sequences, FiniteSets, TLC

\* ---------------------------------------------------------------- bounds
MaxEvents == 2        \* events submitted in one behaviour
MaxTeardowns == 2     \* destroy / page-hide invocations in one behaviour
TickMs == 100         \* Tick stops this long before the next deadline, or at it

\* ------------------------------------------------------ program constants
\* both are imported from ./constants; MAX_RETRIES is the retry limit that
\* sendBatch compares state.retryCount with
BATCH_DELAY == 200
MAX_RETRIES == 2

\* batchTimeout: null
NoTimer == -1

\* ------------------------------------------------------------- responses
Header(p, v) == [present |-> p, value |-> v]
NoHeader == Header(FALSE, <<>>)

RetryAfterHeaders ==
    { NoHeader,
      Header(TRUE, <<"0">>),
      Header(TRUE, <<"1">>),
      Header(TRUE, <<"-", "1">>),
      Header(TRUE, <<"1", ".", "5">>),
      Header(TRUE, <<"s", "o", "o", "n">>) }

NetworkError == [kind |-> "error", status |-> 0, retryAfter |-> NoHeader]
NoResponse == [kind |-> "none", status |-> 0, retryAfter |-> NoHeader]

Http(status, h) == [kind |-> "http", status |-> status, retryAfter |-> h]

\* the outcomes a fetch is given: a network error, or a status with or without
\* a Retry-After header
Responses ==
    { NetworkError, Http(200, NoHeader), Http(500, NoHeader),
      Http(500, Header(TRUE, <<"1">>)), Http(503, NoHeader),
      Http(503, Header(TRUE, <<"1">>)) }
        \cup { Http(429, h) : h \in RetryAfterHeaders }

\* response.ok
ResponseOk(r) == r.kind = "http" /\ r.status >= 200 /\ r.status <= 299

\* ------------------------------------------------- parseInt(header, 10)
Digits == {"0", "1", "2", "3", "4", "5", "6", "7", "8", "9"}

DigitVal(c) ==
    CASE c = "0" -> 0 [] c = "1" -> 1 [] c = "2" -> 2 [] c = "3" -> 3
      [] c = "4" -> 4 [] c = "5" -> 5 [] c = "6" -> 6 [] c = "7" -> 7
      [] c = "8" -> 8 [] c = "9" -> 9

RECURSIVE SkipSpace(_, _)
SkipSpace(s, i) ==
    IF i <= Len(s) /\ s[i] = " " THEN SkipSpace(s, i + 1) ELSE i

RECURSIVE DigitRun(_, _)
DigitRun(s, i) ==
    IF i <= Len(s) /\ s[i] \in Digits THEN DigitRun(s, i + 1) ELSE i

RECURSIVE DigitsValue(_, _, _, _)
DigitsValue(s, i, j, acc) ==
    IF i >= j THEN acc ELSE DigitsValue(s, i + 1, j, acc * 10 + DigitVal(s[i]))

\* parseInt: leading blanks, an optional sign, then the longest run of
\* digits; NaN when that run is empty.  What follows the run is ignored.
ParseInt(s) ==
    LET a == SkipSpace(s, 1)
        neg == a <= Len(s) /\ s[a] = "-"
        b == IF a <= Len(s) /\ s[a] \in {"-", "+"} THEN a + 1 ELSE a
        c == DigitRun(s, b)
        v == DigitsValue(s, b, c, 0)
    IN  IF c = b THEN [isNaN |-> TRUE, value |-> 0]
        ELSE [isNaN |-> FALSE, value |-> IF neg THEN 0 - v ELSE v]

\* const canRetry = (status === 429 || status === 503) && retryAfterHeader
CanRetry(r) ==
    /\ r.status \in {429, 503}
    /\ r.retryAfter.present
    /\ Len(r.retryAfter.value) > 0

\* delayMs: null
DelayNull == -1

\* fault: the header's seconds are taken as milliseconds
DelayMsSeconds(h) ==
    LET delaySeconds == ParseInt(h.value)
    IN  IF ~delaySeconds.isNaN /\ delaySeconds.value >= 0
        THEN delaySeconds.value
        ELSE DelayNull

\* delayMs = !isNaN(delaySeconds) && delaySeconds >= 0 ? delaySeconds * 1000 : null
DelayMs(h) ==
    LET delaySeconds == ParseInt(h.value)
    IN  IF ~delaySeconds.isNaN /\ delaySeconds.value >= 0
        THEN delaySeconds.value * 1000
        ELSE DelayNull

\* fault: the limit is compared with <=, which allows one retry too many
MayRetryInclusive(delayMs, rc) == delayMs # DelayNull /\ rc <= MAX_RETRIES

\* delayMs !== null && state.retryCount < MAX_RETRIES
MayRetry(delayMs, rc) == delayMs # DelayNull /\ rc < MAX_RETRIES

\* ------------------------------------------------------------- the state
VARIABLES
    eventQueue,     \* the array shared by the pipeline and the telemetry state
    batchTimeout,   \* the pipeline's state.batchTimeout: ms left, or NoTimer
    retryCount,     \* the pipeline's state.retryCount
    batches,        \* every sendBatch chain, in the order of detachment
    nextId,         \* message identifiers handed out so far, plus one
    lastResp,       \* history: the response the latest settled fetch got
    revision,       \* which createTelemetry is built: its destroy is written
                    \* inline ("inline") or calls flushQueue ("flushQueue")
    tBatchTimeout,  \* the telemetry state's own batchTimeout field
    tQueueShared,   \* the telemetry state's eventQueue is still the shared array
    pageHideAttached, \* the pagehide / beforeunload handler is registered
    teardowns,      \* history: teardown invocations so far
    flushFetches,   \* the fallback fetches of teardowns still in flight
    flushSends,     \* history: per message id, its transmissions by teardowns
    submittedAfter, \* history: per message id, the batches detached before it
                    \* was submitted
    window,         \* history: the messages submitted since the debounce
                    \* timer was armed, the arming one first
    windowIdle,     \* history: the queue was empty when the timer was armed
                    \* and no teardown has emptied it since
    promises,       \* per message id, the promise sendData returned for it:
                    \* "pending", "true", "false" or "rejected"
    resolver,       \* per batch, the message id whose promise awaits
                    \* sendBatch() in the debounce timer's callback
    telemetryEnabled, \* getTelemetryEnabled(): the stored user setting
    privacySignal,  \* the browser's signal: "none", "dnt" (doNotTrack '1' or
                    \* 'yes') or "gpc" (globalPrivacyControl true)
    localAId,       \* localStorage holds an 'aId'
    cookieAId,      \* the cross-domain cookie holds an aId
    captures,       \* the handlers registered: "click", "form", "performance",
                    \* "exit", "crossDomain" (visibilitychange)
    dryRun,         \* config.dryRun of the pipeline
    registry,       \* globalStorage[GLOBAL_TELEMETRY_KEY].instance: the
                    \* number of the registered instance, NoInstance if deleted
    registryConfig, \* globalStorage[GLOBAL_TELEMETRY_KEY].config, of which the
                    \* telemetryEnabled entry is followed
    instances,      \* every telemetry constructed by getTelemetryInstance:
                    \* "alive" until its destroy has completed, then "destroyed"
    destroying,     \* the enhanced destroy calls awaiting originalDestroy():
                    \* the instance each was called on
    returned,       \* history: what the latest getTelemetryInstance returned
    warned,         \* history: the latest getTelemetryInstance warned
    settingStored,  \* the session's config holds a telemetryEnabled entry;
                    \* telemetryEnabled is its value
    defaultsRevision, \* which defaultConfig is built: with telemetryEnabled:
                    \* true ("enabled") or without the entry ("absent")
    stateAId,       \* the telemetry's state.aId is a non-empty string
    payloadAId,     \* history: per message id, its payload's aId is non-empty
    now,            \* performance.now(), in half milliseconds
    docHidden,      \* document.hidden
    pageStartTime,  \* the event sender's state.pageStartTime
    activeStartTime, \* its state.activeStartTime, NoTime for null
    totalActiveTime, \* its state.totalActiveTime
    isPageVisible,  \* its state.isPageVisible
    exits,          \* history: the data of the exit events sent, in order
    storageWorks,   \* the browser's sessionStorage can be written at all
    configItem,     \* sessionStorage holds an item '__pt_config__'
    sessionConfig,  \* the config parsed from that item
    legacyPageTitle, \* sessionStorage's '__pa_page_title_override__' item
    inMemoryConfig, \* browserAPI's inMemoryConfig
    sessionStorageAvailable, \* browserAPI's cached probe: "null", "true", "false"
    storageRevision, \* crossDomainStorage revision, named by its localStorage key
    cookieName,     \* finalConfig.cookieName
    supported,      \* detectDomainInfo() found a Proton root domain
    jar,            \* document.cookie: the cookie held under each name
    localId,        \* the identifier in localStorage, "null" if none
    returnedId,     \* what the last cross-domain call returned
    getCalls        \* getTelemetryId entries made by the last cross-domain call

\* the event sender's page times, followed in ExitSpec only
exitVars == <<now, docHidden, pageStartTime, activeStartTime, totalActiveTime,
              isPageVisible, exits>>
\* the stored telemetry config, followed in StoreSpec only
storeVars == <<storageWorks, configItem, sessionConfig, legacyPageTitle,
               inMemoryConfig, sessionStorageAvailable>>
\* the cross-domain identifier cookies, followed in CookieSpec only
cookieVars == <<storageRevision, cookieName, supported, jar, localId,
                returnedId, getCalls>>
\* the components that have a specification of their own
auxVars == <<exitVars, storeVars, cookieVars>>

teardownVars == <<revision, tBatchTimeout, tQueueShared, pageHideAttached,
                  teardowns, flushFetches>>
vars == <<eventQueue, batchTimeout, retryCount, batches, nextId, lastResp,
          revision, tBatchTimeout, tQueueShared, pageHideAttached,
          teardowns, flushFetches, flushSends, submittedAfter, window, windowIdle,
          promises, resolver,
          telemetryEnabled, privacySignal, localAId, cookieAId, captures,
          dryRun, registry, registryConfig, instances, destroying, returned,
          warned, settingStored, defaultsRevision, stateAId, payloadAId,
          auxVars>>
\* the promises of sendData, followed in SendSpec only
sendVars == <<promises, resolver>>
\* the consent gate and what it guards, followed in GateSpec only
gateVars == <<telemetryEnabled, privacySignal, localAId, cookieAId, captures>>
\* the configuration of the pipeline, chosen in DrySpec only
dryVars == <<dryRun>>
\* the singleton registry and the stored setting, followed in LifeSpec only
lifeVars == <<registry, registryConfig, instances, destroying, returned,
              warned, settingStored, defaultsRevision>>
\* the anonymous identifier of the payloads, followed in IdSpec only
idVars == <<stateAId, payloadAId>>
\* what each specification leaves alone
frozenInSpec == <<sendVars, gateVars, dryVars, lifeVars, idVars, auxVars>>
frozenInSendSpec == <<gateVars, dryVars, lifeVars, idVars, auxVars>>
frozenInGateSpec == <<sendVars, dryVars, lifeVars, idVars, auxVars>>
histVars == <<flushSends, submittedAfter, window, windowIdle>>

\* fault: the batch takes the high-priority entries only
EventsHighOnly(q) ==
    LET high == SelectSeq(q, LAMBDA e : e.priority = "high")
    IN  [i \in 1..Len(high) |-> high[i].messageId]

\* queuedEvent.event of every entry: map((qe) => qe.event)
Events(q) == [i \in 1..Len(q) |-> q[i].messageId]

Priorities == {"high", "low"}

Active(b) == b.pc # "done"

Revisions == {"inline", "flushQueue"}

\* a fallback fetch in flight: who flushed and the body sent
FlushFetch(by, body, beacon) == [by |-> by, body |-> body]

\* a telemetry whose gate is open and stays so
GateOpen ==
    /\ telemetryEnabled = TRUE
    /\ privacySignal = "none"
    /\ localAId = TRUE
    /\ cookieAId = FALSE
    /\ captures = {}

\* createTelemetry's state and the pipeline built on it, nothing sent yet
PipelineInit ==
    /\ eventQueue = <<>>
    /\ batchTimeout = NoTimer
    /\ retryCount = 0
    /\ batches = <<>>
    /\ nextId = 1
    /\ lastResp = NoResponse
    /\ revision \in Revisions
    /\ tBatchTimeout = NoTimer
    /\ tQueueShared = TRUE
    /\ pageHideAttached = (revision = "flushQueue")
    /\ teardowns = 0
    /\ flushFetches = <<>>
    /\ flushSends = <<>>
    /\ submittedAfter = <<>>
    /\ window = <<>>
    /\ windowIdle = FALSE
    /\ promises = <<>>
    /\ resolver = <<>>

\* defaultConfig's dryRun: false
NoDryRun == dryRun = FALSE

NoInstance == 0

\* a telemetry created outside the singleton registry, its setting stored
Unregistered ==
    /\ registry = NoInstance
    /\ registryConfig = "undefined"
    /\ instances = <<>>
    /\ destroying = <<>>
    /\ returned = NoInstance
    /\ warned = FALSE
    /\ settingStored = TRUE
    /\ defaultsRevision = "enabled"

\* getOrCreateAId has set state.aId; the payloads' identifiers are not followed
AIdSet == stateAId = TRUE /\ payloadAId = <<>>

NoTime == -1

\* createEventSender on a visible page at time 0, followed by resetTime()
SenderInit ==
    /\ now = 0
    /\ docHidden = FALSE
    /\ pageStartTime = 0
    /\ activeStartTime = 0
    /\ totalActiveTime = 0
    /\ isPageVisible = TRUE
    /\ exits = <<>>

\* a ProtonTelemetryConfig: an absent key is "undefined"
StoredConfig(title, enabled) == [pageTitle |-> title, telemetryEnabled |-> enabled]

EmptyConfig == StoredConfig("undefined", "undefined")

\* a working sessionStorage that holds no config and was not probed yet
StoreInit ==
    /\ storageWorks = TRUE
    /\ configItem = FALSE
    /\ sessionConfig = EmptyConfig
    /\ legacyPageTitle = "undefined"
    /\ inMemoryConfig = EmptyConfig
    /\ sessionStorageAvailable = "null"

\* the components that are followed in a specification of their own
LEGACY_COOKIE_NAME == "aId"
CookieNames == {"zId", LEGACY_COOKIE_NAME}

\* a cookie as parseCookieValue sees it: the identifier's key in the decoded
\* JSON, the identifier, and the time since its timestamp
TelemetryCookie(key, id, age) == [key |-> key, id |-> id, age |-> age]
\* no cookie of that name
NoCookie == TelemetryCookie("none", "null", 0)
\* a value that atob or JSON.parse rejects
Unparsable == TelemetryCookie("garbage", "null", 0)

\* the default configuration on a Proton domain with no cookie and no
\* stored identifier
CookieInit ==
    /\ storageRevision = "zId"
    /\ cookieName = "zId"
    /\ supported = TRUE
    /\ jar = [n \in CookieNames |-> NoCookie]
    /\ localId = "null"
    /\ returnedId = "null"
    /\ getCalls = 0

AuxInit == SenderInit /\ StoreInit /\ CookieInit

Init == GateOpen /\ PipelineInit /\ NoDryRun /\ Unregistered /\ AIdSet /\ AuxInit

\* fault: the event is put at the head of the queue (unshift)
PushFront(q, id, priority) == <<[messageId |-> id, priority |-> priority]>> \o q

\* state.eventQueue.push({ event, priority })
Push(q, id, priority) == Append(q, [messageId |-> id, priority |-> priority])

\* fault: every submit outside a retry arms the timer, restarting the delay
\* of a timer that is pending
ArmsTimerOnEverySubmit(bt, rc) == rc = 0

\* state.batchTimeout === null && state.retryCount === 0
ArmsTimer(bt, rc) == bt = NoTimer /\ rc = 0

\* sendData(eventType, eventData, customData, priority).  Its callers pass
\* 'low' for one event only: random_uid_created, which getOrCreateAId sends
\* while the telemetry is constructed, before anything else.
sendData(priority) ==
    /\ nextId <= MaxEvents
    /\ priority = "low" => nextId = 1 /\ teardowns = 0
    /\ nextId' = nextId + 1
    /\ eventQueue' = Push(eventQueue, nextId, priority)
    /\ batchTimeout' =
           IF ArmsTimer(batchTimeout, retryCount)
           THEN BATCH_DELAY
           ELSE batchTimeout
    /\ flushSends' = Append(flushSends, 0)
    /\ submittedAfter' = Append(submittedAfter, Len(batches))
    /\ IF ArmsTimer(batchTimeout, retryCount)
       THEN window' = <<nextId>> /\ windowIdle' = (eventQueue = <<>>)
       ELSE IF batchTimeout # NoTimer
       THEN window' = Append(window, nextId) /\ UNCHANGED windowIdle
       ELSE UNCHANGED <<window, windowIdle>>
    /\ UNCHANGED <<retryCount, batches, lastResp>>
    /\ UNCHANGED teardownVars

\* fault: a retry also takes what the queue holds by then
ItemsWithQueue(isRetryAttempt, eventsToProcess, q) ==
    IF isRetryAttempt THEN eventsToProcess \o Events(q) ELSE Events(q)

\* the items a sendBatch call works on
ItemsForThisBatch(isRetryAttempt, eventsToProcess, q) ==
    IF isRetryAttempt THEN eventsToProcess ELSE Events(q)

\* fault: the queue is read without being emptied
QueueKept(q) == q

\* what splice(0, length) leaves in the array
QueueAfterSplice(q) == <<>>

NewBatch(items) ==
    [ items |-> items,
      firstBody |-> items,  \* history: the body of the first attempt
      rcAfter |-> 0,        \* history: state.retryCount as its last step left it
      isRetryAttempt |-> FALSE,
      pc |-> "fetch",
      remaining |-> NoTimer,
      elapsed |-> 0,
      attempts |-> 1,      \* fetch calls made for this batch so far
      resp |-> NoResponse,
      ending |-> "none",
      alone |-> \A i \in DOMAIN batches : ~Active(batches[i]),
      all429 |-> TRUE ]

\* the debounce timer's callback: batchTimeout = null, then sendBatch()
\* up to its await
DebounceFire ==
    /\ batchTimeout = 0
    /\ batchTimeout' = NoTimer
    /\ LET items == ItemsForThisBatch(FALSE, <<>>, eventQueue)
       IN  IF Len(items) = 0
           THEN UNCHANGED <<eventQueue, batches>>
           ELSE /\ eventQueue' = QueueAfterSplice(eventQueue)
                /\ batches' =
                       Append([i \in DOMAIN batches |->
                                  [batches[i] EXCEPT !.alone =
                                       @ /\ ~Active(batches[i])]],
                              NewBatch(items))
    /\ window' = <<>>
    /\ windowIdle' = FALSE
    /\ UNCHANGED <<retryCount, nextId, lastResp, flushSends, submittedAfter>>
    /\ UNCHANGED teardownVars

\* every response so far was 429 with a Retry-After made of digits only
DigitsOnly(h) ==
    h.present /\ Len(h.value) > 0 /\ \A i \in 1..Len(h.value) : h.value[i] \in Digits

Finish(b, r, how, rc) ==
    [b EXCEPT !.pc = "done", !.resp = NoResponse, !.ending = how, !.rcAfter = rc,
              !.all429 = @ /\ r.status = 429 /\ DigitsOnly(r.retryAfter)]

\* fault: a 2xx response empties the queue (state.eventQueue = [])
QueueClearedOnOk(q, r) == IF ResponseOk(r) THEN <<>> ELSE q

\* the queue once a fetch has settled: the batch was spliced out when it was
\* detached, the queue is left as it is
QueueAfterSettle(q, r) == q

\* fault: a successful retry leaves state.retryCount as it is
RetryCountKeptOnOk(isRetryAttempt, rc) == rc

\* state.retryCount after a response.ok
RetryCountAfterOk(isRetryAttempt, rc) == IF isRetryAttempt THEN 0 ELSE rc

\* the rest of sendBatch, from the moment its fetch settles with r
FetchSettle(i, r) ==
    LET b == batches[i] IN
    /\ b.pc = "fetch"
    /\ lastResp' = r
    /\ eventQueue' = QueueAfterSettle(eventQueue, r)
    /\ IF ResponseOk(r)
       THEN /\ retryCount' = RetryCountAfterOk(b.isRetryAttempt, retryCount)
            /\ batches' = [batches EXCEPT ![i] = Finish(b, r, "ok", retryCount')]
       ELSE IF r.kind = "http" /\ CanRetry(r)
       THEN LET delayMs == DelayMs(r.retryAfter) IN
            IF MayRetry(delayMs, retryCount)
            THEN /\ retryCount' = retryCount + 1
                 /\ batches' = [batches EXCEPT ![i] =
                        [b EXCEPT !.pc = "timer", !.resp = r,
                                  !.rcAfter = retryCount + 1,
                                  !.remaining = delayMs, !.elapsed = 0,
                                  !.all429 = @ /\ r.status = 429
                                               /\ DigitsOnly(r.retryAfter)]]
            ELSE /\ retryCount' = 0
                 /\ batches' = [batches EXCEPT ![i] = Finish(b, r, "dropped", 0)]
       ELSE /\ retryCount' = 0
            /\ batches' = [batches EXCEPT ![i] = Finish(b, r, "dropped", 0)]
    /\ UNCHANGED <<batchTimeout, nextId>>
    /\ UNCHANGED histVars
    /\ UNCHANGED teardownVars

\* the retry timer's callback: sendBatch(itemsForThisBatch) up to its await
RetryFire(i) ==
    LET b == batches[i]
        items == ItemsForThisBatch(TRUE, b.items, eventQueue)
    IN
    /\ b.pc = "timer"
    /\ b.remaining = 0
    /\ IF Len(items) = 0
       THEN /\ batches' = [batches EXCEPT ![i] =
                   [b EXCEPT !.pc = "done", !.ending = "ok", !.resp = NoResponse,
                             !.remaining = NoTimer, !.elapsed = 0]]
       ELSE /\ batches' = [batches EXCEPT ![i] =
                   [b EXCEPT !.pc = "fetch", !.isRetryAttempt = TRUE,
                             !.items = items, !.remaining = NoTimer,
                             !.resp = NoResponse, !.elapsed = 0,
                             !.attempts = @ + 1]]
    /\ UNCHANGED <<eventQueue, batchTimeout, retryCount, nextId, lastResp>>
    /\ UNCHANGED histVars
    /\ UNCHANGED teardownVars

\* the milliseconds left on every pending timer
PendingTimers ==
    (IF batchTimeout = NoTimer THEN {} ELSE {batchTimeout})
        \cup {batches[i].remaining : i \in {j \in DOMAIN batches : batches[j].pc = "timer"}}

\* the deadline that comes first
NextDeadline == CHOOSE m \in PendingTimers : \A t \in PendingTimers : m <= t

\* time is let pass up to the next deadline, or up to TickMs before it
TickSteps ==
    IF PendingTimers = {} THEN {}
    ELSE {NextDeadline} \cup
         (IF NextDeadline > TickMs THEN {NextDeadline - TickMs} ELSE {})

\* d milliseconds pass; no timer is overrun
Tick(d) ==
    /\ d > 0
    /\ PendingTimers # {}
    /\ \A t \in PendingTimers : t >= d
    /\ batchTimeout' = IF batchTimeout = NoTimer THEN NoTimer ELSE batchTimeout - d
    /\ batches' = [i \in DOMAIN batches |->
           IF batches[i].pc = "timer"
           THEN [batches[i] EXCEPT !.remaining = @ - d, !.elapsed = @ + d]
           ELSE batches[i]]
    /\ UNCHANGED <<eventQueue, retryCount, nextId, lastResp>>
    /\ UNCHANGED histVars
    /\ UNCHANGED teardownVars

\* --------------------------------------------------------------- teardown
\* if (state.batchTimeout) clearTimeout(state.batchTimeout)
ClearTimeout(handle, timer) == IF handle # NoTimer THEN NoTimer ELSE timer

BeaconOutcomes == {"unavailable", "true", "false", "throws"}

\* fault: the fetch is used only when navigator.sendBeacon does not exist
FallsBackWhenUnavailable(beacon) == beacon = "unavailable"

\* the flush goes on to fetchWithHeaders: sendBeacon is missing, returned
\* false or threw, so the queue was not emptied
FallsBack(beacon) == beacon # "true"

\* fault: the telemetry state still reads the array the pipeline holds
TelemetryQueueAliased == eventQueue

\* state.eventQueue as the telemetry state sees it
TelemetryQueue == IF tQueueShared THEN eventQueue ELSE <<>>

\* one more transmission by a teardown of every message of body
CountSends(sends, body) ==
    [id \in DOMAIN sends |->
        IF \E j \in DOMAIN body : body[j] = id THEN sends[id] + 1 ELSE sends[id]]

\* the array without its k-th element
RemoveAt(q, k) == SubSeq(q, 1, k - 1) \o SubSeq(q, k + 1, Len(q))

\* destroy of the inline revision, up to the await of its fallback fetch
DestroyInline(beacon) ==
    /\ revision = "inline"
    /\ teardowns < MaxTeardowns
    /\ teardowns' = teardowns + 1
    /\ batchTimeout' = ClearTimeout(tBatchTimeout, batchTimeout)
    /\ LET body == Events(TelemetryQueue) IN
       IF Len(TelemetryQueue) > 0
       THEN /\ flushSends' = CountSends(flushSends, body)
            /\ IF ~FallsBack(beacon)
               THEN /\ tQueueShared' = FALSE       \* state.eventQueue = []
                    /\ UNCHANGED flushFetches
               ELSE /\ tQueueShared' = tQueueShared
                    /\ flushFetches' = Append(flushFetches, FlushFetch("destroy", body, beacon))
       ELSE UNCHANGED <<tQueueShared, flushFetches, flushSends>>
    /\ UNCHANGED <<eventQueue, retryCount, batches, nextId, lastResp>>
    /\ UNCHANGED <<revision, tBatchTimeout, pageHideAttached>>
    /\ UNCHANGED <<submittedAfter, window, windowIdle>>

\* flushQueue(endpoint, appVersion, uidHeader, debug, state.eventQueue) called
\* by destroy or by the page-hide handler, up to the await of its fetch
FlushQueue(by, beacon) ==
    /\ revision = "flushQueue"
    /\ teardowns < MaxTeardowns
    /\ by = "pagehide" => pageHideAttached
    /\ teardowns' = teardowns + 1
    /\ batchTimeout' = ClearTimeout(tBatchTimeout, batchTimeout)
    /\ LET body == Events(TelemetryQueue) IN
       IF Len(TelemetryQueue) > 0
       THEN /\ flushSends' = CountSends(flushSends, body)
            /\ IF ~FallsBack(beacon)
               THEN /\ eventQueue' = <<>>          \* eventQueue.length = 0
                    /\ pageHideAttached' = (pageHideAttached /\ by # "destroy")
                    /\ UNCHANGED flushFetches
               ELSE /\ flushFetches' = Append(flushFetches, FlushFetch(by, body, beacon))
                    /\ UNCHANGED <<eventQueue, pageHideAttached>>
       ELSE /\ pageHideAttached' = (pageHideAttached /\ by # "destroy")
            /\ UNCHANGED <<eventQueue, flushFetches, flushSends>>
    /\ windowIdle' = (windowIdle /\ eventQueue' = eventQueue)
    /\ UNCHANGED <<retryCount, batches, nextId, lastResp>>
    /\ UNCHANGED <<revision, tBatchTimeout, tQueueShared>>
    /\ UNCHANGED <<submittedAfter, window>>

\* fault: the fallback fetch ends the way sendBatch's terminal branches do,
\* resetting state.retryCount
FlushSettleAsSendBatch(k, resolved) ==
    LET f == flushFetches[k] IN
    /\ flushFetches' = RemoveAt(flushFetches, k)
    /\ IF revision = "inline"
       THEN /\ tQueueShared' = (tQueueShared /\ ~resolved)
            /\ UNCHANGED eventQueue
       ELSE /\ eventQueue' = IF resolved THEN <<>> ELSE eventQueue
            /\ UNCHANGED tQueueShared
    /\ pageHideAttached' = (pageHideAttached /\ f.by # "destroy")
    /\ windowIdle' = (windowIdle /\ eventQueue' = eventQueue)
    /\ retryCount' = 0
    /\ UNCHANGED <<batchTimeout, batches, nextId, lastResp>>
    /\ UNCHANGED <<revision, tBatchTimeout, teardowns, flushSends>>
    /\ UNCHANGED <<submittedAfter, window>>

\* the fallback fetch of a teardown settles: it resolves (whatever the
\* status) or rejects; destroy then runs to its end
FlushSettle(k, resolved) ==
    LET f == flushFetches[k] IN
    /\ flushFetches' = RemoveAt(flushFetches, k)
    /\ IF revision = "inline"
       THEN /\ tQueueShared' = (tQueueShared /\ ~resolved)   \* state.eventQueue = []
            /\ UNCHANGED eventQueue
       ELSE /\ eventQueue' = IF resolved THEN <<>> ELSE eventQueue \* eventQueue.length = 0
            /\ UNCHANGED tQueueShared
    /\ pageHideAttached' = (pageHideAttached /\ f.by # "destroy")
    /\ windowIdle' = (windowIdle /\ eventQueue' = eventQueue)
    /\ UNCHANGED <<batchTimeout, retryCount, batches, nextId, lastResp>>
    /\ UNCHANGED <<revision, tBatchTimeout, teardowns, flushSends>>
    /\ UNCHANGED <<submittedAfter, window>>

\* the pipeline and its teardown; what sendData returns is not followed
Next ==
    \/ (\E p \in Priorities : sendData(p)) /\ UNCHANGED frozenInSpec
    \/ DebounceFire /\ UNCHANGED frozenInSpec
    \/ (\E i \in DOMAIN batches : \E r \in Responses : FetchSettle(i, r))
           /\ UNCHANGED frozenInSpec
    \/ (\E i \in DOMAIN batches : RetryFire(i)) /\ UNCHANGED frozenInSpec
    \/ (\E d \in TickSteps : Tick(d)) /\ UNCHANGED frozenInSpec
    \/ (\E o \in BeaconOutcomes : DestroyInline(o)) /\ UNCHANGED frozenInSpec
    \/ (\E o \in BeaconOutcomes : FlushQueue("destroy", o)) /\ UNCHANGED frozenInSpec
    \/ (\E o \in BeaconOutcomes : FlushQueue("pagehide", o)) /\ UNCHANGED frozenInSpec
    \/ (\E k \in DOMAIN flushFetches : \E ok \in BOOLEAN : FlushSettle(k, ok))
           /\ UNCHANGED frozenInSpec

Spec == Init /\ [][Next]_vars

\* ------------------------------------------- the promises sendData returns
\* fault: sendBatch without its catch, so a failed fetch rejects
SendBatchUncaught(r) ==
    IF r.kind = "error" THEN "rejected"
    ELSE IF ResponseOk(r) THEN "true" ELSE "false"

\* fault: sendBatch resolves true when it has scheduled a retry
SendBatchReturnsQueued(r) ==
    IF r.kind = "http" /\ (ResponseOk(r) \/ (CanRetry(r) /\ DelayMs(r.retryAfter) # DelayNull))
    THEN "true" ELSE "false"

\* what a first-attempt sendBatch() resolves with once its fetch has settled
\* with r: true on response.ok, false when a retry is scheduled, when the
\* batch is dropped and in the catch
SendBatchReturns(r) == IF r.kind = "http" /\ ResponseOk(r) THEN "true" ELSE "false"

\* sendData with the promise it returns: new Promise(...) when it arms the
\* timer, Promise.resolve(true) otherwise
Submit(priority) ==
    /\ sendData(priority)
    /\ promises' = Append(promises,
                          IF ArmsTimer(batchTimeout, retryCount)
                          THEN "pending" ELSE "true")
    /\ UNCHANGED resolver

\* the debounce timer's callback, resolve(await sendBatch()): sendBatch
\* returns true at once on an empty queue, or goes to its fetch
TimerCallback ==
    /\ DebounceFire
    /\ IF eventQueue = <<>>
       THEN /\ promises' = [promises EXCEPT ![window[1]] = "true"]
            /\ UNCHANGED resolver
       ELSE /\ resolver' = Append(resolver, window[1])
            /\ UNCHANGED promises

\* the fetch of batch i settles; a first attempt resolves the promise that
\* awaits it, a retry was started with void and resolves nothing
SendBatchSettles(i, r) ==
    /\ FetchSettle(i, r)
    /\ promises' =
           IF batches[i].isRetryAttempt THEN promises
           ELSE [promises EXCEPT ![resolver[i]] = SendBatchReturns(r)]
    /\ UNCHANGED resolver

NextSend ==
    \/ (\E p \in Priorities : Submit(p)) /\ UNCHANGED frozenInSendSpec
    \/ TimerCallback /\ UNCHANGED frozenInSendSpec
    \/ (\E i \in DOMAIN batches : \E r \in Responses : SendBatchSettles(i, r))
           /\ UNCHANGED frozenInSendSpec
    \/ (\E i \in DOMAIN batches : RetryFire(i)) /\ UNCHANGED frozenInSpec
    \/ (\E d \in TickSteps : Tick(d)) /\ UNCHANGED frozenInSpec
    \/ (\E o \in BeaconOutcomes : DestroyInline(o)) /\ UNCHANGED frozenInSpec
    \/ (\E o \in BeaconOutcomes : FlushQueue("destroy", o)) /\ UNCHANGED frozenInSpec
    \/ (\E o \in BeaconOutcomes : FlushQueue("pagehide", o)) /\ UNCHANGED frozenInSpec
    \/ (\E k \in DOMAIN flushFetches : \E ok \in BOOLEAN : FlushSettle(k, ok))
           /\ UNCHANGED frozenInSpec

SendSpec == Init /\ [][NextSend]_vars

\* ------------------------------------------------------------ dry-run mode
\* fault: the dry-run flag is not consulted and the event is queued
DryRunIgnored(dry) == FALSE

\* if (config.dryRun): sendData logs the event and returns
DryRunReturns(dry) == dry

\* sendData in dry-run mode: the payload is created (taking a message id),
\* logged, and the async function returns true
LogEvent(priority) ==
    /\ nextId <= MaxEvents
    /\ priority = "low" => nextId = 1 /\ teardowns = 0
    /\ nextId' = nextId + 1
    /\ promises' = Append(promises, "true")
    /\ flushSends' = Append(flushSends, 0)
    /\ submittedAfter' = Append(submittedAfter, Len(batches))
    /\ UNCHANGED <<eventQueue, batchTimeout, retryCount, batches, lastResp>>
    /\ UNCHANGED <<teardownVars, window, windowIdle, resolver>>

\* sendData under either value of config.dryRun
SendDataConfigured(priority) ==
    IF DryRunReturns(dryRun) THEN LogEvent(priority) ELSE Submit(priority)

InitDry ==
    /\ AuxInit
    /\ GateOpen
    /\ PipelineInit
    /\ dryRun \in BOOLEAN
    /\ Unregistered
    /\ AIdSet

NextDry ==
    \/ (\E p \in Priorities : SendDataConfigured(p)) /\ UNCHANGED frozenInSendSpec
    \/ TimerCallback /\ UNCHANGED frozenInSendSpec
    \/ (\E i \in DOMAIN batches : \E r \in Responses : SendBatchSettles(i, r))
           /\ UNCHANGED frozenInSendSpec
    \/ (\E i \in DOMAIN batches : RetryFire(i)) /\ UNCHANGED frozenInSpec
    \/ (\E d \in TickSteps : Tick(d)) /\ UNCHANGED frozenInSpec
    \/ (\E o \in BeaconOutcomes : DestroyInline(o)) /\ UNCHANGED frozenInSpec
    \/ (\E o \in BeaconOutcomes : FlushQueue("destroy", o)) /\ UNCHANGED frozenInSpec
    \/ (\E o \in BeaconOutcomes : FlushQueue("pagehide", o)) /\ UNCHANGED frozenInSpec
    \/ (\E k \in DOMAIN flushFetches : \E ok \in BOOLEAN : FlushSettle(k, ok))
           /\ UNCHANGED frozenInSpec

\* the pipeline, its promises and its teardown under either configuration
DrySpec == InitDry /\ [][NextDry]_vars

\* ----------------------------------------------------------------- claims
Range(q) == {q[i] : i \in DOMAIN q}

RECURSIVE SumAttempts(_)
SumAttempts(bs) ==
    IF bs = <<>> THEN 0 ELSE Head(bs).attempts + SumAttempts(Tail(bs))

\* every fetch call made so far by the scheduler and the retry controller
SchedulerCalls == SumAttempts(batches)

\* the seconds a Retry-After made of digits only asks for
Seconds(h) == DigitsValue(h.value, 1, Len(h.value) + 1, 0)

\* the fetch of batch i settles in this step
Settles(i) == batches[i].pc = "fetch" /\ batches'[i].pc # "fetch"

\* C1: when the debounce timer fires on a window that was opened on an empty
\* queue and that no teardown touched, exactly one network call is made, for
\* a new batch that holds the messages submitted in the window, in the order
\* of submission, none of which was transmitted before.
C1_Step ==
    (batchTimeout = 0 /\ batchTimeout' = NoTimer /\ windowIdle
        /\ \A j \in DOMAIN window : flushSends[window[j]] = 0)
    => /\ Len(batches') = Len(batches) + 1
       /\ batches'[Len(batches')].items = window
       /\ batches'[Len(batches')].attempts = 1
       /\ SchedulerCalls' = SchedulerCalls + 1
       /\ flushSends' = flushSends
       /\ \A i \in DOMAIN batches : Range(batches[i].items) \cap Range(window) = {}
       /\ eventQueue' = <<>>
C1_OneCallPerWindow == [][C1_Step]_vars

C1_Witness ==
    /\ teardowns = 0
    /\ Len(batches) = 1
    /\ batches[1].items = <<1, 2>>
    /\ batches[1].pc = "fetch"

\* C2: every attempt of a batch sends the body of its first attempt: the same
\* records in the same order, whatever was submitted since.
C2_RetrySameBody ==
    \A i \in DOMAIN batches : batches[i].items = batches[i].firstBody

C2_Witness ==
    \E i \in DOMAIN batches :
        /\ batches[i].pc = "fetch"
        /\ batches[i].isRetryAttempt
        /\ eventQueue # <<>>
        /\ submittedAfter[eventQueue[1].messageId] >= i

\* C3: a batch that was alone in the pipeline all its life and got 429 with a
\* valid Retry-After at every attempt was sent MAX_RETRIES + 1 times, then
\* dropped, leaving retryCount at 0 and no timer or request behind.
C3_DroppedAfterMaxRetries ==
    \A i \in DOMAIN batches :
        (batches[i].pc = "done" /\ batches[i].alone /\ batches[i].all429)
        => /\ batches[i].attempts = MAX_RETRIES + 1
           /\ batches[i].ending = "dropped"
           /\ batches[i].rcAfter = 0
           /\ batches[i].remaining = NoTimer

C3_Witness ==
    \E i \in DOMAIN batches :
        /\ batches[i].pc = "done" /\ batches[i].alone /\ batches[i].all429
        /\ batches[i].attempts = MAX_RETRIES + 1
        /\ retryCount = 0

\* C4: a 429 or 503 with Retry-After: N, received below the retry limit, arms
\* one timer of N * 1000 ms and sends nothing at once; while that timer is
\* pending the batch is not sent, and it is sent once, when N * 1000 ms have
\* passed.
Throttled(r) == r.kind = "http" /\ r.status \in {429, 503} /\ DigitsOnly(r.retryAfter)

C4_Step ==
    \A i \in DOMAIN batches :
        /\ (Settles(i) /\ Throttled(lastResp') /\ retryCount < MAX_RETRIES)
           => /\ batches'[i].pc = "timer"
              /\ batches'[i].remaining = Seconds(lastResp'.retryAfter) * 1000
              /\ batches'[i].elapsed = 0
              /\ batches'[i].attempts = batches[i].attempts
              /\ retryCount' = retryCount + 1
        /\ (batches[i].pc = "timer" /\ Throttled(batches[i].resp))
           => \/ batches'[i].attempts = batches[i].attempts
              \/ /\ batches'[i].attempts = batches[i].attempts + 1
                 /\ batches'[i].pc = "fetch"
                 /\ batches[i].elapsed = Seconds(batches[i].resp.retryAfter) * 1000
C4_RetryAfterDelay == [][C4_Step]_vars

C4_Witness ==
    \E i \in DOMAIN batches :
        /\ batches[i].pc = "timer"
        /\ batches[i].resp.retryAfter.value = <<"1">>
        /\ batches[i].remaining = 0
        /\ batches[i].elapsed = 1000

\* C5: a fetch that ends in a network error, in a status that is neither 2xx
\* nor 429 nor 503, or in 429 / 503 without a Retry-After that is an integer
\* >= 0, ends its batch: no retry, nothing re-queued, retryCount 0.
Terminal(r) ==
    \/ r.kind = "error"
    \/ r.kind = "http" /\ ~ResponseOk(r) /\ r.status \notin {429, 503}
    \/ r.kind = "http" /\ r.status \in {429, 503} /\ ~DigitsOnly(r.retryAfter)

C5_Step ==
    \A i \in DOMAIN batches :
        (Settles(i) /\ Terminal(lastResp'))
        => /\ batches'[i].pc = "done"
           /\ batches'[i].ending = "dropped"
           /\ retryCount' = 0
           /\ eventQueue' = eventQueue
C5_TerminalNeverRetried == [][C5_Step]_vars

\* C6: the batches of the scheduler share no message, and batch k holds only
\* messages submitted after batch k - 1 was detached.
C6_BatchesDisjoint ==
    \A i \in DOMAIN batches :
        /\ \A j \in DOMAIN batches :
               i # j => Range(batches[i].items) \cap Range(batches[j].items) = {}
        /\ \A id \in Range(batches[i].items) : submittedAfter[id] = i - 1

C6_Witness ==
    /\ Len(batches) = 2
    /\ batches[1].pc = "done" /\ batches[1].ending = "dropped"
    /\ batches[2].pc = "done" /\ batches[2].ending = "ok"

\* C7: the end of a fetch leaves the queue as it is, no batch ever gains a
\* message, and the batch detached next takes the whole queue.
C7_Step ==
    /\ (\E i \in DOMAIN batches : Settles(i)) => eventQueue' = eventQueue
    /\ \A i \in DOMAIN batches :
           Range(batches'[i].items) \subseteq Range(batches[i].items)
    /\ Len(batches') > Len(batches)
           => /\ batches'[Len(batches')].items = Events(eventQueue)
              /\ eventQueue' = <<>>
C8_OkResetsRetryCount ==
    \A i \in DOMAIN batches :
        (batches[i].pc = "done" /\ batches[i].ending = "ok") => batches[i].rcAfter = 0

\* C9: destroy cancels a pending debounce timer.
C9_Step ==
    (teardowns' = teardowns + 1 /\ revision = "inline" /\ batchTimeout # NoTimer)
    => batchTimeout' = NoTimer
C9_DestroyCancelsTimer == [][C9_Step]_vars

\* C10: the messages a teardown delivers are delivered by nothing else: one
\* teardown invocation makes one delivery attempt for them and no batch of
\* the scheduler carries any of them.
C10_FlushedOnce ==
    \A id \in DOMAIN flushSends :
        flushSends[id] >= 1
        => \A i \in DOMAIN batches : id \notin Range(batches[i].items)

\* -------------------------------------------------------- the consent gate
Signals == {"none", "dnt", "gpc"}

\* baseShouldSend = !(dnt === '1' || dnt === 'yes' || gpc === true)
BaseShouldSend(signal) == signal = "none"

\* what shouldSend() returns
Gate == telemetryEnabled /\ BaseShouldSend(privacySignal)

\* cleanupTrackingIdentifiers(): localStorage.removeItem('aId') and
\* crossDomainStorage.cleanupCookie()
CleanupTrackingIdentifiers == localAId' = FALSE /\ cookieAId' = FALSE

\* everything of the pipeline and its teardown
pipelineVars == <<eventQueue, batchTimeout, retryCount, batches, nextId, lastResp,
                  teardownVars, histVars>>

\* createTelemetry configured with events.click and events.performance and
\* without events.pageView, on a browser whose localStorage already holds an
\* aId: shouldSend() is called once; when it is true the click listener, the
\* performance observer and the cross-domain visibilitychange handler are
\* registered, when it is false the identifiers are cleaned up.  The page
\* exit handler is registered either way.
InitGate ==
    /\ AuxInit
    /\ PipelineInit
    /\ NoDryRun
    /\ Unregistered
    /\ AIdSet
    /\ revision = "inline"
    /\ telemetryEnabled \in BOOLEAN
    /\ privacySignal \in Signals
    /\ localAId = Gate
    /\ cookieAId = FALSE
    /\ captures = IF Gate THEN {"exit", "click", "performance", "crossDomain"}
                          ELSE {"exit"}

\* setTelemetryEnabled(enabled): the setting is stored, nothing else
SetTelemetryEnabled(enabled) ==
    /\ telemetryEnabled' = enabled
    /\ UNCHANGED <<privacySignal, localAId, cookieAId, captures>>
    /\ UNCHANGED pipelineVars

\* if (!shouldSend()) return: the identifiers are cleaned up and nothing
\* else happens
GateClosed ==
    /\ ~Gate
    /\ CleanupTrackingIdentifiers
    /\ UNCHANGED <<telemetryEnabled, privacySignal, captures>>
    /\ UNCHANGED pipelineVars

\* sendCustomEvent / sendModalView of the public API
SendCustomEvent ==
    \/ GateClosed
    \/ Gate /\ sendData("high") /\ UNCHANGED gateVars

\* sendClicks / sendForms of the public API: the listener is registered
InitSending(kind) ==
    \/ GateClosed
    \/ /\ Gate
       /\ captures' = captures \cup {kind}
       /\ UNCHANGED <<telemetryEnabled, privacySignal, localAId, cookieAId>>
       /\ UNCHANGED pipelineVars

\* the listeners: sendClick, sendFormSubmit and the performance
\* observer's callback call sendData; shouldSend is not consulted
Capture(kind) ==
    /\ kind \in captures
    /\ sendData("high")
    /\ UNCHANGED gateVars

\* handlePageExit, on beforeunload / pagehide
HandlePageExit ==
    /\ "exit" \in captures
    /\ \/ GateClosed
       \/ Gate /\ sendData("high") /\ UNCHANGED gateVars

\* the visibilitychange handler of initCrossDomainTracking, page hidden: the
\* aId of localStorage, if any, is written to the cookie
HandleVisibilityChange ==
    /\ "crossDomain" \in captures
    /\ cookieAId' = (cookieAId \/ localAId)
    /\ UNCHANGED <<telemetryEnabled, privacySignal, localAId, captures>>
    /\ UNCHANGED pipelineVars

NextGate ==
    \/ (\E b \in BOOLEAN : SetTelemetryEnabled(b)) /\ UNCHANGED frozenInGateSpec
    \/ SendCustomEvent /\ UNCHANGED frozenInGateSpec
    \/ (\E k \in {"click", "form"} : InitSending(k)) /\ UNCHANGED frozenInGateSpec
    \/ (\E k \in {"click", "form", "performance"} : Capture(k))
           /\ UNCHANGED frozenInGateSpec
    \/ HandlePageExit /\ UNCHANGED frozenInGateSpec
    \/ HandleVisibilityChange /\ UNCHANGED frozenInGateSpec
    \/ DebounceFire /\ UNCHANGED frozenInSpec
    \/ (\E i \in DOMAIN batches : \E r \in Responses : FetchSettle(i, r))
           /\ UNCHANGED frozenInSpec
    \/ (\E i \in DOMAIN batches : RetryFire(i)) /\ UNCHANGED frozenInSpec
    \/ (\E d \in TickSteps : Tick(d)) /\ UNCHANGED frozenInSpec

GateSpec == InitGate /\ [][NextGate]_vars

\* a teardown (destroy or the page-hide flush) is invoked in this step
TeardownStep == teardowns' = teardowns + 1

\* C11: a teardown that finds events queued hands them to sendBeacon when it
\* exists; it goes on to one fetch with the same body exactly when sendBeacon
\* is missing, returned false or threw, and to none when it returned true.
C11_Step ==
    \A o \in BeaconOutcomes :
        ((DestroyInline(o) \/ FlushQueue("destroy", o) \/ FlushQueue("pagehide", o))
            /\ Len(TelemetryQueue) > 0)
        => /\ o = "true" => flushFetches' = flushFetches
           /\ o # "true" =>
                  /\ Len(flushFetches') = Len(flushFetches) + 1
                  /\ SubSeq(flushFetches', 1, Len(flushFetches)) = flushFetches
                  /\ flushFetches'[Len(flushFetches')].body = Events(TelemetryQueue)
           /\ flushSends' = CountSends(flushSends, Events(TelemetryQueue))
C11_BeaconThenFetch == [][C11_Step]_vars

C11_Witness ==
    /\ revision = "flushQueue"
    /\ teardowns = 2
    /\ Len(flushFetches) = 1
    /\ eventQueue = <<>>
    /\ batches = <<>>
    /\ flushSends = <<2>>

\* C12: no step of a teardown, its invocation or the end of its fetch
\* whatever the outcome, arms a retry timer, re-sends anything or changes
\* retryCount.
C12_Step ==
    (TeardownStep \/ flushFetches' # flushFetches)
    => /\ retryCount' = retryCount
       /\ batches' = batches
       /\ batchTimeout' \in {batchTimeout, NoTimer}
       /\ Len(flushFetches') < Len(flushFetches) => flushSends' = flushSends
C12_FlushSingleAttempt == [][C12_Step]_vars

C12_Witness ==
    /\ revision = "flushQueue"
    /\ flushFetches = <<>>
    /\ retryCount >= 1
    /\ \E j \in DOMAIN eventQueue : flushSends[eventQueue[j].messageId] >= 1

\* C13: a teardown invoked on an empty queue sends nothing and leaves the
\* pipeline as it is, and a flush that succeeded (sendBeacon returned true or
\* the fetch resolved) leaves the queue empty for the teardown after it.
C13_Step ==
    /\ (TeardownStep /\ TelemetryQueue = <<>>)
       => UNCHANGED <<eventQueue, batchTimeout, retryCount, batches,
                      flushFetches, flushSends>>
    /\ ((TeardownStep /\ flushSends' # flushSends /\ flushFetches' = flushFetches)
            \/ \E k \in DOMAIN flushFetches : FlushSettle(k, TRUE))
       => TelemetryQueue' = <<>>
C13_EmptyFlushIsNoOp == [][C13_Step]_vars

C13_Witness ==
    /\ revision = "inline"
    /\ teardowns = 2
    /\ ~tQueueShared
    /\ flushFetches = <<>>
    /\ flushSends = <<1>>
    /\ batches = <<>>

\* an event is submitted in this step
SubmitStep == nextId' = nextId + 1

\* batch i is being retried: its retry timer is pending or its retry request
\* is in flight
Retrying(i) ==
    \/ batches[i].pc = "timer"
    \/ batches[i].pc = "fetch" /\ batches[i].isRetryAttempt

\* C16: a submit while the debounce timer is armed appends the event and
\* leaves the timer as it is; the timer is armed by a submit only, for
\* BATCH_DELAY, only the passage of time brings it nearer, and when it is due
\* it detaches the queue.
C16_Step ==
    /\ (SubmitStep /\ batchTimeout # NoTimer)
       => /\ batchTimeout' = batchTimeout
          /\ Events(eventQueue') = Append(Events(eventQueue), nextId)
          /\ batches' = batches
    /\ (batchTimeout = NoTimer /\ batchTimeout' # NoTimer)
       => SubmitStep /\ batchTimeout' = BATCH_DELAY
    /\ (batchTimeout # NoTimer /\ batchTimeout' # batchTimeout /\ ~TeardownStep)
       => \/ /\ batchTimeout' >= 0 /\ batchTimeout' < batchTimeout
             /\ UNCHANGED <<eventQueue, nextId, retryCount>>
             /\ Len(batches') = Len(batches)
          \/ /\ batchTimeout = 0 /\ batchTimeout' = NoTimer
             /\ eventQueue # <<>> =>
                    /\ Len(batches') = Len(batches) + 1
                    /\ batches'[Len(batches')].items = Events(eventQueue)
C16_FixedWindow == [][C16_Step]_vars

C16_Witness ==
    /\ Len(window) = 2
    /\ Len(eventQueue) = 2
    /\ batchTimeout > 0 /\ batchTimeout < BATCH_DELAY

\* C17: while a batch is being retried a submit arms no timer and no batch
\* is detached.
C17_Step ==
    (\E i \in DOMAIN batches : Retrying(i))
    => /\ SubmitStep => batchTimeout' = batchTimeout
       /\ Len(batches') = Len(batches)
C17_NothingDetachedWhileRetrying == [][C17_Step]_vars

\* C18: at most one timer of the pipeline is pending.
C18_OneTimer ==
    Cardinality({i \in DOMAIN batches : batches[i].pc = "timer"})
        + (IF batchTimeout = NoTimer THEN 0 ELSE 1) <= 1

\* C19: the promise of every submit is pending, true or false, never
\* rejected, and a pending one is awaited by something that will settle it:
\* the armed debounce timer or the first request of its batch.
C19_PromiseIsBoolean ==
    \A id \in DOMAIN promises :
        /\ promises[id] \in {"pending", "true", "false"}
        /\ promises[id] = "pending"
           => \/ batchTimeout # NoTimer /\ window # <<>> /\ window[1] = id
              \/ \E i \in DOMAIN batches :
                     /\ resolver[i] = id
                     /\ batches[i].pc = "fetch"
                     /\ ~batches[i].isRetryAttempt

C19_Witness ==
    /\ lastResp = NetworkError
    /\ \E id \in DOMAIN promises : promises[id] = "false"
    /\ \E id \in DOMAIN promises : promises[id] = "true"

\* C20: a submit made while a send is scheduled or in flight (the debounce
\* timer is armed, a request is in flight or a retry is pending) returns a
\* promise that is already resolved with true.
C20_Step ==
    (SubmitStep /\ (batchTimeout # NoTimer
                      \/ \E i \in DOMAIN batches : Active(batches[i])))
    => promises'[nextId] = "true"
C20_QueuedResolvesTrue == [][C20_Step]_vars

\* C14: while shouldSend() is false no event is enqueued, whatever its
\* source, and the pipeline makes no network call.
C14_Step ==
    ~Gate => /\ nextId' = nextId
             /\ Len(eventQueue') <= Len(eventQueue)
             /\ SchedulerCalls' = SchedulerCalls
C14_NothingWhileGateClosed == [][C14_Step]_vars

\* C15: the step that closes the gate leaves no persisted identifier, in
\* localStorage or in the cookie, and none is written while it stays closed.
C15_Step ==
    /\ (Gate /\ ~Gate') => ~localAId' /\ ~cookieAId'
    /\ (~Gate /\ ~Gate') => /\ localAId' => localAId
                            /\ cookieAId' => cookieAId
C15_IdentifiersCleared == [][C15_Step]_vars

\* ------------------------------------------- priorities, bounds, teardowns
\* C22: priority does not gate sending: a low-priority submit on an idle
\* pipeline arms the debounce timer, and when the timer fires on a queue of
\* low-priority entries only, one batch carrying all of them is transmitted.
C22_Step ==
    /\ (SubmitStep /\ eventQueue'[Len(eventQueue')].priority = "low"
           /\ batchTimeout = NoTimer /\ retryCount = 0)
       => batchTimeout' = BATCH_DELAY
    /\ (batchTimeout = 0 /\ batchTimeout' = NoTimer /\ eventQueue # <<>>
           /\ \A j \in DOMAIN eventQueue : eventQueue[j].priority = "low")
       => /\ Len(batches') = Len(batches) + 1
          /\ batches'[Len(batches')].pc = "fetch"
          /\ batches'[Len(batches')].attempts = 1
          /\ \A j \in DOMAIN eventQueue :
                 eventQueue[j].messageId \in Range(batches'[Len(batches')].items)
C22_PriorityDoesNotGate == [][C22_Step]_vars
\* the timer armed by a low-priority submit is due with only that entry queued
C22_Witness ==
    /\ batchTimeout = 0
    /\ Len(eventQueue) = 1
    /\ eventQueue[1].priority = "low"

\* C26: no batch is transmitted more than MAX_RETRIES + 1 times by the
\* scheduler and the retry controller.
C26_AttemptsBounded ==
    \A i \in DOMAIN batches : batches[i].attempts <= MAX_RETRIES + 1

\* C28: a teardown trigger that comes while the fallback request of an
\* earlier trigger is in flight transmits none of the events that request
\* carries.
C28_Step ==
    TeardownStep
    => \A id \in DOMAIN flushSends :
           (\E k \in DOMAIN flushFetches : id \in Range(flushFetches[k].body))
           => flushSends'[id] = flushSends[id]
C28_SecondTriggerSendsNothing == [][C28_Step]_vars

\* C29: when the fallback request of a teardown has resolved, the queue the
\* teardown read holds what it held less the events of the body sent, so an
\* event submitted meanwhile is still queued.
C29_Step ==
    \A k \in DOMAIN flushFetches :
        FlushSettle(k, TRUE)
        => Range(Events(TelemetryQueue'))
               = Range(Events(TelemetryQueue)) \ Range(flushFetches[k].body)
C29_FlushRemovesWhatItSent == [][C29_Step]_vars

\* C30: at most one request of the scheduler or the retry controller is in
\* flight.
C30_OneRequestInFlight ==
    Cardinality({i \in DOMAIN batches : batches[i].pc = "fetch"}) <= 1

\* ----------------------------------------------- the pipeline left to run
\* a timer of the pipeline makes a step: time passes or a callback runs
TimerStep ==
    /\ \/ \E d \in TickSteps : Tick(d)
       \/ DebounceFire
       \/ \E i \in DOMAIN batches : RetryFire(i)
    /\ UNCHANGED frozenInSpec

\* a request of the pipeline settles
SettleStep ==
    /\ \E i \in DOMAIN batches : \E r \in Responses : FetchSettle(i, r)
    /\ UNCHANGED frozenInSpec

\* the pipeline without teardown: submits, timers and responses
NextLive ==
    \/ (\E p \in Priorities : sendData(p)) /\ UNCHANGED frozenInSpec
    \/ TimerStep
    \/ SettleStep

\* every timer eventually fires and every request eventually settles
LiveSpec ==
    /\ Init
    /\ [][NextLive]_vars
    /\ WF_vars(TimerStep)
    /\ WF_vars(SettleStep)

Queued(id) == \E j \in DOMAIN eventQueue : eventQueue[j].messageId = id

Transmitted(id) == \E i \in DOMAIN batches : id \in Range(batches[i].items)

\* C27: every event accepted into the queue is eventually part of a
\* transmitted batch, with no later submit or destroy needed.
C27_EventuallySent ==
    \A id \in 1..MaxEvents : [](Queued(id) => <>Transmitted(id))

\* C21: in dry-run mode a submit resolves true and leaves the queue, the
\* debounce timer and retryCount as they were, and no request is ever made:
\* no batch is sent and no teardown transmits anything.
C21_Step ==
    dryRun
    => /\ SubmitStep
          => /\ promises'[nextId] = "true"
             /\ UNCHANGED <<eventQueue, batchTimeout, retryCount>>
       /\ batches' = <<>>
       /\ flushFetches' = <<>>
       /\ \A id \in DOMAIN flushSends' : flushSends'[id] = 0
C21_DryRunSendsNothing == [][C21_Step]_vars
\* two events were submitted in dry-run mode and a teardown has run
C21_Witness ==
    /\ dryRun
    /\ promises = <<"true", "true">>
    /\ teardowns >= 1

\* ------------------------------- the singleton registry and stored setting
MaxInstances == 3
MaxPendingDestroys == 2

\* userConfig.telemetryEnabled: a boolean, or the key is absent
UserConfigs == {"undefined", "true", "false"}

DefaultsRevisions == {"enabled", "absent"}

\* createConfig(userConfig).telemetryEnabled: { ...defaultConfig, ...userConfig }
CreateConfig(cfg) ==
    IF cfg # "undefined" THEN cfg
    ELSE IF defaultsRevision = "enabled" THEN "true" ELSE "undefined"

\* createTelemetry initialises the stored setting from its config
InitTelemetryEnabled(cfg) ==
    LET c == CreateConfig(cfg) IN
    IF c # "undefined"
    THEN /\ settingStored' = TRUE
         /\ telemetryEnabled' = (c = "true")
    ELSE IF ~settingStored              \* getTelemetryEnabled() === null
    THEN /\ settingStored' = TRUE
         /\ telemetryEnabled' = FALSE
    ELSE UNCHANGED <<settingStored, telemetryEnabled>>

\* getExistingTelemetryInstance(): existing?.instance || null
GetExistingTelemetryInstance == registry

\* what a LifeSpec action leaves alone
frozenInLifeSpec == <<pipelineVars, sendVars, dryVars, idVars, auxVars,
                      privacySignal, localAId, cookieAId, captures>>

\* getTelemetryInstance(config)
GetTelemetryInstance(cfg) ==
    /\ IF registry # NoInstance
       THEN /\ warned' = (registryConfig # cfg)
            /\ returned' = registry
            /\ UNCHANGED <<registry, registryConfig, instances,
                           settingStored, telemetryEnabled>>
       ELSE /\ Len(instances) < MaxInstances
            /\ InitTelemetryEnabled(cfg)
            /\ instances' = Append(instances, "alive")
            /\ registry' = Len(instances) + 1
            /\ registryConfig' = cfg
            /\ returned' = Len(instances) + 1
            /\ warned' = FALSE
    /\ UNCHANGED <<destroying, defaultsRevision>>
    /\ UNCHANGED frozenInLifeSpec

\* destroyTelemetryInstance() up to the await inside the enhanced destroy
DestroyTelemetryInstance ==
    /\ registry # NoInstance
    /\ Len(destroying) < MaxPendingDestroys
    /\ destroying' = Append(destroying, registry)
    /\ UNCHANGED <<registry, registryConfig, instances, returned, warned,
                   settingStored, telemetryEnabled, defaultsRevision>>
    /\ UNCHANGED frozenInLifeSpec

\* fault: the registry entry is left in place
RegistryKept(reg) == reg

\* delete globalStorage[GLOBAL_TELEMETRY_KEY]
RegistryAfterDelete(reg) == NoInstance

\* originalDestroy() of the k-th pending call has completed: the enhanced
\* destroy deletes the registry entry
DestroyCompletes(k) ==
    /\ instances' = [instances EXCEPT ![destroying[k]] = "destroyed"]
    /\ registry' = RegistryAfterDelete(registry)
    /\ destroying' = RemoveAt(destroying, k)
    /\ UNCHANGED <<registryConfig, returned, warned,
                   settingStored, telemetryEnabled, defaultsRevision>>
    /\ UNCHANGED frozenInLifeSpec

\* the singleton's setTelemetryEnabled(enabled): stored through the existing
\* instance, ignored with a warning when there is none
SetTelemetryEnabledSingleton(enabled) ==
    /\ GetExistingTelemetryInstance # NoInstance
    /\ settingStored' = TRUE
    /\ telemetryEnabled' = enabled
    /\ UNCHANGED <<registry, registryConfig, instances, destroying, returned,
                   warned, defaultsRevision>>
    /\ UNCHANGED frozenInLifeSpec

\* a browser session before the first getTelemetryInstance: the setting may
\* be stored from an earlier page of the session
InitLife ==
    /\ AuxInit
    /\ PipelineInit
    /\ revision = "inline"
    /\ NoDryRun
    /\ privacySignal = "none"
    /\ localAId = TRUE
    /\ cookieAId = FALSE
    /\ captures = {}
    /\ registry = NoInstance
    /\ registryConfig = "undefined"
    /\ instances = <<>>
    /\ destroying = <<>>
    /\ returned = NoInstance
    /\ warned = FALSE
    /\ settingStored \in BOOLEAN
    /\ telemetryEnabled \in BOOLEAN
    /\ ~settingStored => telemetryEnabled = FALSE
    /\ AIdSet
    /\ defaultsRevision \in DefaultsRevisions

NextLife ==
    \/ \E cfg \in UserConfigs : GetTelemetryInstance(cfg)
    \/ DestroyTelemetryInstance
    \/ \E k \in DOMAIN destroying : DestroyCompletes(k)
    \/ \E enabled \in BOOLEAN : SetTelemetryEnabledSingleton(enabled)

LifeSpec == InitLife /\ [][NextLife]_vars

\* C23: while an instance is alive (created, its destroy not completed),
\* getTelemetryInstance returns it whatever the config and constructs nothing.
C23_Step ==
    (\E cfg \in UserConfigs : GetTelemetryInstance(cfg))
    => \A i \in DOMAIN instances :
           instances[i] = "alive" => (returned' = i /\ instances' = instances)
C23_SameInstanceWhileAlive == [][C23_Step]_vars

\* C24: when a destroy of the singleton instance completes,
\* getExistingTelemetryInstance returns null; the next getTelemetryInstance
\* constructs and registers an instance that did not exist before.
C24_Step ==
    /\ (\E k \in DOMAIN destroying : DestroyCompletes(k))
       => GetExistingTelemetryInstance' = NoInstance
    /\ ( /\ GetExistingTelemetryInstance = NoInstance
         /\ \E i \in DOMAIN instances : instances[i] = "destroyed"
         /\ \E cfg \in UserConfigs : GetTelemetryInstance(cfg) )
       => /\ returned' \notin DOMAIN instances
          /\ instances'[returned'] = "alive"
          /\ GetExistingTelemetryInstance' = returned'
C24_DestroyedThenNew == [][C24_Step]_vars
\* the first instance was destroyed and a second one is registered
C24_Witness ==
    /\ Len(instances) = 2
    /\ instances[1] = "destroyed"
    /\ instances[2] = "alive"
    /\ registry = 2
    /\ returned = 2

\* C25: creating a pipeline whose configuration does not specify
\* telemetryEnabled leaves a stored 'disabled' setting in force.
C25_Step ==
    ( /\ settingStored /\ ~telemetryEnabled
      /\ registry = NoInstance
      /\ GetTelemetryInstance("undefined") )
    => (settingStored' /\ ~telemetryEnabled')
C25_DisabledPersists == [][C25_Step]_vars

\* ------------------------------------- retry budget, rest, promises, destroy
\* C31: a batch whose response is retryable (429 or 503 with a valid
\* Retry-After) is dropped only when that batch was already retried
\* MAX_RETRIES times.
C31_Step ==
    \A i \in DOMAIN batches : \A r \in Responses :
        ( /\ FetchSettle(i, r)
          /\ r.kind = "http" /\ CanRetry(r)
          /\ DelayMs(r.retryAfter) # DelayNull
          /\ batches'[i].pc = "done" )
        => batches[i].attempts - 1 >= MAX_RETRIES
C31_OwnRetryBudget == [][C31_Step]_vars

\* no timer of the pipeline is pending and no request of it is in flight
AtRest ==
    /\ PendingTimers = {}
    /\ \A i \in DOMAIN batches : batches[i].pc # "fetch"

\* C32: when no timer is pending and no request is in flight, retryCount is
\* 0 and batchTimeout is null, and a submit made then arms the debounce timer.
C32_Step ==
    /\ AtRest => (retryCount = 0 /\ batchTimeout = NoTimer)
    /\ (AtRest /\ SubmitStep) => batchTimeout' = BATCH_DELAY
C32_RestIsIdle == [][C32_Step]_vars
\* the pipeline is at rest after a batch was retried, and can take a submit
C32_Witness ==
    /\ AtRest
    /\ nextId <= MaxEvents
    /\ \E i \in DOMAIN batches : batches[i].attempts >= 2

\* C33: the promise of the submit that armed the timer resolves when the
\* first attempt of its batch completes, true on a 2xx response and false
\* otherwise; a retry's outcome changes no promise, and a resolved promise
\* keeps its value.
C33_Step ==
    /\ \A i \in DOMAIN batches : \A r \in Responses :
           SendBatchSettles(i, r)
           => IF batches[i].isRetryAttempt
              THEN promises' = promises
              ELSE /\ promises[resolver[i]] = "pending"
                   /\ promises'[resolver[i]] =
                          (IF ResponseOk(r) THEN "true" ELSE "false")
    /\ \A id \in DOMAIN promises :
           promises[id] # "pending" => promises'[id] = promises[id]
C33_FirstAttemptDecides == [][C33_Step]_vars
\* a batch was retried with success after its first attempt resolved the
\* promise with false
C33_Witness ==
    \E i \in DOMAIN batches :
        /\ batches[i].attempts >= 2
        /\ batches[i].ending = "ok"
        /\ promises[resolver[i]] = "false"

\* destroy has run to its end
DestroyCompleted ==
    IF revision = "inline"
    THEN teardowns >= 1 /\ flushFetches = <<>>
    ELSE ~pageHideAttached

\* C34: once destroy has completed, the batches of the pipeline make no
\* further request.
C34_Step ==
    DestroyCompleted
    => \A i \in DOMAIN batches : batches'[i].attempts = batches[i].attempts
C34_NoRequestAfterDestroy == [][C34_Step]_vars

\* C35: at most one live instance exists, and the completion of a destroy
\* leaves the registry entry of any other instance in place.
C35_Step ==
    /\ Cardinality({i \in DOMAIN instances : instances[i] = "alive"}) <= 1
    /\ \A k \in DOMAIN destroying :
           (DestroyCompletes(k) /\ registry # destroying[k])
           => registry' = registry
C35_NewerInstanceStaysRegistered == [][C35_Step]_vars

\* ------------------------------------------- the payloads' anonymous id
\* createEventPayload's aId: state.aId is recorded for the payload a step
\* creates, if it creates one; state.aId is assigned at construction only
RecordPayload ==
    /\ payloadAId' = IF nextId' # nextId
                     THEN Append(payloadAId, stateAId)
                     ELSE payloadAId
    /\ UNCHANGED stateAId
    /\ UNCHANGED <<sendVars, dryVars, lifeVars, auxVars>>

\* createTelemetry as in InitGate: state.aId is '' and is set by
\* getOrCreateAId only if shouldSend() is true at construction
InitId ==
    /\ AuxInit
    /\ PipelineInit
    /\ NoDryRun
    /\ Unregistered
    /\ revision = "inline"
    /\ telemetryEnabled \in BOOLEAN
    /\ privacySignal \in Signals
    /\ localAId = Gate
    /\ cookieAId = FALSE
    /\ captures = IF Gate THEN {"exit", "click", "performance", "crossDomain"}
                          ELSE {"exit"}
    /\ stateAId = Gate
    /\ payloadAId = <<>>

NextId ==
    \/ (\E b \in BOOLEAN : SetTelemetryEnabled(b)) /\ RecordPayload
    \/ SendCustomEvent /\ RecordPayload
    \/ (\E k \in {"click", "form"} : InitSending(k)) /\ RecordPayload
    \/ (\E k \in {"click", "form", "performance"} : Capture(k)) /\ RecordPayload
    \/ HandlePageExit /\ RecordPayload
    \/ HandleVisibilityChange /\ RecordPayload
    \/ DebounceFire /\ UNCHANGED gateVars /\ RecordPayload
    \/ (\E i \in DOMAIN batches : \E r \in Responses : FetchSettle(i, r))
           /\ UNCHANGED gateVars /\ RecordPayload
    \/ (\E i \in DOMAIN batches : RetryFire(i)) /\ UNCHANGED gateVars /\ RecordPayload
    \/ (\E d \in TickSteps : Tick(d)) /\ UNCHANGED gateVars /\ RecordPayload

\* the gated telemetry with the identifier its payloads carry
IdSpec == InitId /\ [][NextId]_vars

\* C36: every event of every transmitted batch carries a non-empty
\* anonymous identifier.
C36_TransmittedHaveAId ==
    \A i \in DOMAIN batches :
        \A j \in DOMAIN batches[i].items : payloadAId[batches[i].items[j]]

\* ----------------------------------------- the event sender's page times
MaxNow == 6
MaxExits == 2

\* Math.round of a time given in half milliseconds, in milliseconds
Round(h) == (h + 1) \div 2

\* what an ExitSpec action leaves alone
frozenInExitSpec == <<pipelineVars, sendVars, gateVars, dryVars, lifeVars, idVars,
                      storeVars, cookieVars>>

\* time passes
Advance(d) ==
    /\ now + d <= MaxNow
    /\ now' = now + d
    /\ UNCHANGED <<docHidden, pageStartTime, activeStartTime, totalActiveTime,
                   isPageVisible, exits>>
    /\ UNCHANGED frozenInExitSpec

\* the page is hidden or shown, and the visibilitychange listener runs
HandleVisibilityChangeTimes ==
    /\ docHidden' = ~docHidden
    /\ isPageVisible' = ~docHidden'
    /\ IF docHidden'
       THEN IF activeStartTime # NoTime
            THEN /\ totalActiveTime' = totalActiveTime + (now - activeStartTime)
                 /\ activeStartTime' = NoTime
            ELSE UNCHANGED <<totalActiveTime, activeStartTime>>
       ELSE /\ activeStartTime' = now
            /\ UNCHANGED totalActiveTime
    /\ UNCHANGED <<now, pageStartTime, exits>>
    /\ UNCHANGED frozenInExitSpec

\* state.totalActiveTime as handlePageExit leaves it
TotalAtExit ==
    IF isPageVisible /\ activeStartTime # NoTime
    THEN totalActiveTime + (now - activeStartTime)
    ELSE totalActiveTime

\* the data of the exit event handlePageExit sends
ExitData ==
    [ timeOnPage |-> Round(now - pageStartTime),
      activeTime |-> Round(TotalAtExit) ]

\* handlePageExit on beforeunload or pagehide, shouldSend() being true
HandlePageExitTimes ==
    /\ Len(exits) < MaxExits
    /\ totalActiveTime' = TotalAtExit
    /\ exits' = Append(exits, ExitData)
    /\ UNCHANGED <<now, docHidden, pageStartTime, activeStartTime, isPageVisible>>
    /\ UNCHANGED frozenInExitSpec

\* sendPageView: the exit event of the page left, if it was active, then
\* resetTime()
SendPageViewTimes ==
    /\ IF pageStartTime # 0 /\ totalActiveTime > 0
       THEN /\ Len(exits) < MaxExits
            /\ exits' = Append(exits, ExitData)
       ELSE UNCHANGED exits
    /\ pageStartTime' = now
    /\ activeStartTime' = IF docHidden THEN NoTime ELSE now
    /\ totalActiveTime' = 0
    /\ isPageVisible' = ~docHidden
    /\ UNCHANGED <<now, docHidden>>
    /\ UNCHANGED frozenInExitSpec

\* createEventSender followed by resetTime(), on a visible or hidden page
InitExit ==
    /\ GateOpen /\ PipelineInit /\ NoDryRun /\ Unregistered /\ AIdSet
    /\ StoreInit /\ CookieInit
    /\ revision = "inline"
    /\ now \in {0, 1}
    /\ docHidden \in BOOLEAN
    /\ pageStartTime = now
    /\ activeStartTime = IF docHidden THEN NoTime ELSE now
    /\ totalActiveTime = 0
    /\ isPageVisible = ~docHidden
    /\ exits = <<>>

NextExit ==
    \/ \E d \in 1..2 : Advance(d)
    \/ HandleVisibilityChangeTimes
    \/ HandlePageExitTimes
    \/ SendPageViewTimes

ExitSpec == InitExit /\ [][NextExit]_vars

\* C37: in every exit event activeTime is at most timeOnPage.
C37_ActiveWithinTimeOnPage ==
    \A e \in DOMAIN exits : exits[e].activeTime <= exits[e].timeOnPage

\* ------------------------------------------- the stored telemetry config
Titles == {"undefined", "a", "b"}
EnabledValues == {"undefined", "true", "false"}
StoredConfigs == {StoredConfig(t, e) : t \in Titles, e \in EnabledValues}

\* what a StoreSpec action leaves alone
frozenInStoreSpec == <<pipelineVars, sendVars, gateVars, dryVars, lifeVars, idVars,
                       exitVars, cookieVars>>

\* what isSessionStorageAvailable() returns: the cached answer, or the
\* outcome of the probe
IsSessionStorageAvailable ==
    IF sessionStorageAvailable # "null"
    THEN sessionStorageAvailable = "true"
    ELSE storageWorks

\* sessionStorageAvailable once isSessionStorageAvailable() has run
ProbeCached ==
    IF sessionStorageAvailable # "null" THEN sessionStorageAvailable
    ELSE IF storageWorks THEN "true" ELSE "false"

\* getConfig() finds no config item but a legacy page title, and its write
\* of the migrated config does not throw
Migrates(writeThrows) ==
    /\ IsSessionStorageAvailable
    /\ ~configItem
    /\ legacyPageTitle # "undefined"
    /\ ~writeThrows

\* what getConfig() returns
GetConfig(writeThrows) ==
    IF ~IsSessionStorageAvailable THEN inMemoryConfig
    ELSE IF configItem THEN sessionConfig
    ELSE IF Migrates(writeThrows) THEN StoredConfig(legacyPageTitle, "undefined")
    ELSE EmptyConfig

\* what getConfig() leaves in sessionStorage
GetConfigStores(writeThrows) ==
    IF Migrates(writeThrows)
    THEN /\ configItem' = TRUE
         /\ sessionConfig' = StoredConfig(legacyPageTitle, "undefined")
         /\ legacyPageTitle' = "undefined"
    ELSE UNCHANGED <<configItem, sessionConfig, legacyPageTitle>>

\* getTelemetryEnabled(): config.telemetryEnabled ?? null, null being "undefined"
GetTelemetryEnabled == GetConfig(FALSE).telemetryEnabled

\* fault: a failed write does not reach the in-memory config
InMemoryKept(old, new) == old

\* inMemoryConfig = newConfig in setConfig's catch
InMemoryAfterFailedWrite(old, new) == new

\* setConfig after its getConfig(): newConfig is stored in memory when
\* sessionStorage is not available, in sessionStorage otherwise, and in
\* memory when that write throws
Store(newConfig, writeThrows) ==
    IF ~IsSessionStorageAvailable
    THEN /\ inMemoryConfig' = newConfig
         /\ sessionStorageAvailable' = ProbeCached
         /\ UNCHANGED <<configItem, sessionConfig, legacyPageTitle>>
    ELSE IF writeThrows
    THEN /\ sessionStorageAvailable' = "false"
         /\ inMemoryConfig' = InMemoryAfterFailedWrite(inMemoryConfig, newConfig)
         /\ UNCHANGED <<configItem, sessionConfig, legacyPageTitle>>
    ELSE /\ configItem' = TRUE
         /\ sessionConfig' = newConfig
         /\ legacyPageTitle' =
                IF Migrates(writeThrows) THEN "undefined" ELSE legacyPageTitle
         /\ sessionStorageAvailable' = ProbeCached
         /\ UNCHANGED inMemoryConfig

\* setTelemetryEnabled(enabled) of browserAPI: setConfig({ telemetryEnabled })
SetTelemetryEnabledStorage(enabled, writeThrows) ==
    /\ Store([GetConfig(writeThrows) EXCEPT !.telemetryEnabled = enabled], writeThrows)
    /\ UNCHANGED storageWorks
    /\ UNCHANGED frozenInStoreSpec

\* setPageTitleOverride(title): setConfig({ pageTitle })
SetPageTitleOverride(title, writeThrows) ==
    /\ Store([GetConfig(writeThrows) EXCEPT !.pageTitle = title], writeThrows)
    /\ UNCHANGED storageWorks
    /\ UNCHANGED frozenInStoreSpec

\* clearPageTitleOverride(): if the config has a pageTitle, the rest of it
\* is stored, or the item is removed when nothing is left
ClearPageTitleOverride(writeThrows) ==
    LET config == GetConfig(writeThrows)
        rest == [config EXCEPT !.pageTitle = "undefined"]
    IN
    /\ IF config.pageTitle = "undefined"
       THEN /\ GetConfigStores(writeThrows)
            /\ sessionStorageAvailable' = ProbeCached
            /\ UNCHANGED inMemoryConfig
       ELSE IF IsSessionStorageAvailable /\ rest = EmptyConfig
       THEN /\ configItem' = FALSE                 \* removeItem
            /\ sessionConfig' = EmptyConfig
            /\ legacyPageTitle' =
                   IF Migrates(writeThrows) THEN "undefined" ELSE legacyPageTitle
            /\ sessionStorageAvailable' = ProbeCached
            /\ UNCHANGED inMemoryConfig
       ELSE Store(rest, writeThrows)
    /\ UNCHANGED storageWorks
    /\ UNCHANGED frozenInStoreSpec

\* a call of getTelemetryEnabled() or getPageTitleOverride()
ReadConfig(writeThrows) ==
    /\ GetConfigStores(writeThrows)
    /\ sessionStorageAvailable' = ProbeCached
    /\ UNCHANGED <<storageWorks, inMemoryConfig>>
    /\ UNCHANGED frozenInStoreSpec

\* a browser session: sessionStorage works or not, and may hold the config
\* of an earlier page or a legacy page title
InitStore ==
    /\ GateOpen /\ PipelineInit /\ NoDryRun /\ Unregistered /\ AIdSet
    /\ SenderInit /\ CookieInit
    /\ revision = "inline"
    /\ storageWorks \in BOOLEAN
    /\ configItem \in BOOLEAN
    /\ sessionConfig \in StoredConfigs
    /\ legacyPageTitle \in Titles
    /\ ~configItem => sessionConfig = EmptyConfig
    /\ ~storageWorks => (~configItem /\ legacyPageTitle = "undefined")
    /\ inMemoryConfig = EmptyConfig
    /\ sessionStorageAvailable = "null"

NextStore ==
    \/ \E x \in {"true", "false"} : \E w \in BOOLEAN : SetTelemetryEnabledStorage(x, w)
    \/ \E t \in Titles \ {"undefined"} : \E w \in BOOLEAN : SetPageTitleOverride(t, w)
    \/ \E w \in BOOLEAN : ClearPageTitleOverride(w)
    \/ \E w \in BOOLEAN : ReadConfig(w)

StoreSpec == InitStore /\ [][NextStore]_vars

\* C38: right after setTelemetryEnabled(x), getTelemetryEnabled() returns x,
\* with sessionStorage available, unavailable from the start, or failing on
\* the write.
C38_Step ==
    \A x \in {"true", "false"} : \A w \in BOOLEAN :
        SetTelemetryEnabledStorage(x, w) => GetTelemetryEnabled' = x
C38_SetThenGet == [][C38_Step]_vars
\* a write to a sessionStorage that passed the probe has failed, and the
\* setting is read from memory
C38_Witness ==
    /\ storageWorks
    /\ sessionStorageAvailable = "false"
    /\ GetTelemetryEnabled = "true"
    /\ sessionConfig.telemetryEnabled # "true"

\* ---------------------------------------------------------------------
\* The cross-domain identifier cookies (crossDomainStorage)
\* ---------------------------------------------------------------------

\* maxAge, in ticks of the model's clock
MaxAge == 2
\* the depth of calls at which the engine throws RangeError
MaxStack == 8
Ids == {"c", "l"}
Ages == 0..(MaxAge + 1)
CookieValues ==
    {NoCookie, Unparsable}
        \cup {TelemetryCookie(k, i, a) : k \in CookieNames, i \in Ids, a \in Ages}

\* what a CookieSpec action leaves alone
frozenInCookieSpec == <<pipelineVars, sendVars, gateVars, dryVars, lifeVars, idVars,
                        exitVars, storeVars>>

\* the key createCookieValue writes and parseCookieValue requires
MainKey == storageRevision

\* isExpired(timestamp, maxAge): Date.now() - timestamp > maxAge * 1000
IsExpired(age) == age > MaxAge

\* parseCookieValue(v) succeeds and the timestamp is not expired
ValidCookie(v) == v.key = MainKey /\ ~IsExpired(v.age)

\* parseLegacyCookieValue(v) succeeds and the timestamp is not expired
ValidLegacyCookie(v) == v.key = "aId" /\ ~IsExpired(v.age)

\* cleanupCookie(): the cookie, and in the zId revision the legacy cookie
\* too, is expired
CleanupCookie(j) ==
    IF ~supported THEN j
    ELSE [n \in CookieNames |->
            IF n = cookieName \/ (storageRevision = "zId" /\ n = LEGACY_COOKIE_NAME)
            THEN NoCookie ELSE j[n]]

\* the two document.cookie assignments of setTelemetryId, in their order;
\* the aId revision makes the first one only
WriteCookies(j, id) ==
    LET first == [j EXCEPT ![cookieName] = TelemetryCookie(MainKey, id, 0)]
    IN  IF storageRevision = "zId"
        THEN [first EXCEPT ![LEGACY_COOKIE_NAME] = TelemetryCookie("aId", id, 0)]
        ELSE first

\* the outcome of a call: the jar it leaves, what it returns, and how many
\* times getTelemetryId was entered
Outcome(j, ret, gets) == [jar |-> j, ret |-> ret, gets |-> gets]

RECURSIVE GetTelemetryId(_, _)
RECURSIVE SetTelemetryId(_, _, _)
RECURSIVE VerifyWriteSuccess(_, _, _)

\* getTelemetryId() running at call depth d
GetTelemetryId(j, d) ==
    IF storageRevision = "zId"
    THEN IF ValidCookie(j[cookieName])
         THEN Outcome(j, j[cookieName].id, 1)
         ELSE IF ValidLegacyCookie(j[LEGACY_COOKIE_NAME])
         THEN IF d >= MaxStack
              THEN Outcome(j, "null", 1)             \* RangeError, caught
              ELSE LET r == SetTelemetryId(j, j[LEGACY_COOKIE_NAME].id, d + 1)
                   IN  Outcome(r.jar, j[LEGACY_COOKIE_NAME].id, 1 + r.gets)
         ELSE Outcome(j, "null", 1)
    ELSE IF j[cookieName] = NoCookie
         THEN Outcome(j, "null", 1)
         ELSE IF ~ValidCookie(j[cookieName])
         THEN Outcome(CleanupCookie(j), "null", 1)
         ELSE Outcome(j, j[cookieName].id, 1)

\* setTelemetryId(id) running at call depth d
SetTelemetryId(j, id, d) ==
    IF ~supported THEN Outcome(j, "false", 0)
    ELSE IF d >= MaxStack
    THEN Outcome(WriteCookies(j, id), "false", 0)    \* RangeError, caught
    ELSE VerifyWriteSuccess(WriteCookies(j, id), id, d + 1)

\* verifyWriteSuccess(expected) running at call depth d
VerifyWriteSuccess(j, expected, d) ==
    IF d >= MaxStack
    THEN Outcome(j, "false", 0)                      \* RangeError, caught
    ELSE LET r == GetTelemetryId(j, d + 1)
         IN  Outcome(r.jar, IF r.ret = expected THEN "true" ELSE "false", r.gets)

\* storage.getTelemetryId() called by the page
CallGetTelemetryId ==
    LET r == GetTelemetryId(jar, 1)
    IN  /\ jar' = r.jar
        /\ returnedId' = r.ret
        /\ getCalls' = r.gets
        /\ UNCHANGED <<storageRevision, cookieName, supported, localId>>
        /\ UNCHANGED frozenInCookieSpec

\* storage.setTelemetryId(id) called by the page
CallSetTelemetryId(id) ==
    LET r == SetTelemetryId(jar, id, 1)
    IN  /\ jar' = r.jar
        /\ returnedId' = r.ret
        /\ getCalls' = r.gets
        /\ UNCHANGED <<storageRevision, cookieName, supported, localId>>
        /\ UNCHANGED frozenInCookieSpec

\* handleCrossDomainTelemetryId(localStorage's identifier, config);
\* setItemThrows: localStorage.setItem throws
HandleCrossDomainTelemetryId(setItemThrows) ==
    LET r == GetTelemetryId(jar, 2)
    IN
    /\ IF ~supported
       THEN /\ returnedId' = localId
            /\ getCalls' = 0
            /\ UNCHANGED <<jar, localId>>
       ELSE IF r.ret = "null"
       THEN /\ returnedId' = localId
            /\ getCalls' = r.gets
            /\ jar' = r.jar
            /\ UNCHANGED localId
       ELSE IF localId # r.ret /\ setItemThrows
       THEN /\ returnedId' = localId                 \* the catch block
            /\ getCalls' = r.gets
            /\ jar' = r.jar
            /\ UNCHANGED localId
       ELSE /\ returnedId' = r.ret
            /\ getCalls' = r.gets
            /\ localId' = r.ret
            /\ jar' = CleanupCookie(r.jar)
    /\ UNCHANGED <<storageRevision, cookieName, supported>>
    /\ UNCHANGED frozenInCookieSpec

\* time passes: every cookie gets older
CookieTick ==
    /\ \E n \in CookieNames : jar[n].key \in CookieNames /\ jar[n].age <= MaxAge
    /\ jar' = [n \in CookieNames |->
                 IF jar[n].key \in CookieNames /\ jar[n].age <= MaxAge
                 THEN [jar[n] EXCEPT !.age = @ + 1] ELSE jar[n]]
    /\ UNCHANGED <<storageRevision, cookieName, supported, localId,
                   returnedId, getCalls>>
    /\ UNCHANGED frozenInCookieSpec

\* a page of either revision, with any configured cookie name, on a Proton
\* domain or not, finding any cookies and any stored identifier
InitCookie ==
    /\ GateOpen /\ PipelineInit /\ NoDryRun /\ Unregistered /\ AIdSet
    /\ SenderInit /\ StoreInit
    /\ revision = "inline"
    /\ storageRevision \in {"zId", "aId"}
    /\ cookieName \in CookieNames
    /\ supported \in BOOLEAN
    /\ jar \in [CookieNames -> CookieValues]
    /\ localId \in {"null"} \cup Ids
    /\ returnedId = "null"
    /\ getCalls = 0

NextCookie ==
    \/ CallGetTelemetryId
    \/ \E id \in Ids : CallSetTelemetryId(id)
    \/ \E t \in BOOLEAN : HandleCrossDomainTelemetryId(t)
    \/ CookieTick

CookieSpec == InitCookie /\ [][NextCookie]_vars

\* C39: handleCrossDomainTelemetryId returns the identifier of the
\* cross-domain cookie whenever that cookie parses and is not older than
\* maxAge, then localStorage holds that identifier and the cookie is gone;
\* otherwise it returns the localStorage identifier, or null if there is none
C39_Step ==
    \A t \in BOOLEAN :
        HandleCrossDomainTelemetryId(t) =>
            IF ValidCookie(jar[cookieName])
            THEN /\ returnedId' = jar[cookieName].id
                 /\ localId' = jar[cookieName].id
                 /\ jar'[cookieName] = NoCookie
            ELSE returnedId' = localId
C39_CookieTakesPrecedence == [][C39_Step]_vars

\* C40: a call of getTelemetryId or setTelemetryId enters getTelemetryId at
\* most twice, the second time from the legacy-cookie migration
C40_ReentersAtMostOnce == getCalls <= 2

====
